---- MODULE Spec2Model ----
(***************************************************************************)
(* Booking lifecycle and conflict detection of the room-booking backend    *)
(* (routes/bookings.js).  Instants are minutes since 00:00 UTC of day 0.   *)
(* The store holds booking records; uploaded documents live in `files`.    *)
(***************************************************************************)
EXTENDS Integers, FiniteSets, Sequences, TLC

\* ---------------------------------------------------------------- bounds
MaxBookings == 2          \* bookings ever created in one behaviour
MaxTime == 3              \* instants of the time grid are Base + k*Step, k \in 0..MaxTime
MaxFiles == 2             \* documents ever uploaded in one behaviour

\* ------------------------------------------------------ program constants
JakartaOffset == 7        \* hours added to getUTCHours()
DefaultOpenHour == 8      \* room without operatingHours.start
DefaultCloseHour == 17    \* room without operatingHours.end
HoursPerDay == 24         \* % 24 of the hour arithmetic

\* --------------------------------------------------------- the time grid
MinutesPerHour == 60
MinutesPerDay == HoursPerDay * MinutesPerHour
\* Half-hour instants from 09:30 UTC of day 0, which is 16:30 in Jakarta:
\* 16:30, 17:00, 17:30, 18:00, ... around the closing hour of the rooms.
Step == MinutesPerHour \div 2
Base == 9 * MinutesPerHour + Step
Times == { Base + k * Step : k \in 0..MaxTime }

\* ------------------------------------------------------------ the actors
Users == { "u1", "a1" }
Role(u) == IF u = "a1" THEN "admin" ELSE "user"

\* ------------------------------------------------------------- the rooms
\* Room Registry: r1 and r2 are rooms without operatingHours (the defaults
\* apply); at the start r1 is active and r2 has been deactivated; rX is an
\* id of no room.
VARIABLE activeRooms    \* Room Registry: the rooms whose isActive flag is set
NoHours == [start |-> <<>>, end |-> <<>>]
Rooms == { "r1", "r2" }
Room(r) == [capacity |-> 1, isActive |-> r \in activeRooms, operatingHours |-> NoHours]

BookingIds == 1..MaxBookings
FileIds == 1..MaxFiles
NoFile == 0
Statuses == { "pending", "approved", "rejected", "cancelled", "completed" }
NoBooking == [status |-> "absent"]

VARIABLES
    bookings,   \* Booking collection: id -> record, or NoBooking
    nextId,     \* the next _id the store hands out
    files,      \* the documents on disk
    nextFile,   \* the next path the upload middleware hands out
    now,        \* new Date()
    tz,         \* offset of the server's local zone from UTC, in minutes
    pend,       \* the handler suspended at its await before the store write
    last        \* the last response sent

vars == << bookings, nextId, files, nextFile, now, tz, pend, last, activeRooms >>

NoPend == [op |-> "none"]
Exists(id) == id \in BookingIds /\ bookings[id] # NoBooking
Stored == { id \in BookingIds : bookings[id] # NoBooking }

\* ------------------------------------------------------- Date arithmetic
\* Date.prototype.getUTCHours()
getUTCHours(t) == (t \div MinutesPerHour) % HoursPerDay
\* Date.prototype.toDateString(): the calendar date in the server's zone
toDateString(t, zone) == (t + zone) \div MinutesPerDay
\* the hour of an instant at UTC+7
JakartaHour(t) == (getUTCHours(t) + JakartaOffset) % HoursPerDay
\* parseInt(room.operatingHours.X.split(':')[0]); "HH:MM" is <<HH, MM>>
OpenHour(room) == IF room.operatingHours.start # <<>>
                  THEN room.operatingHours.start[1] ELSE DefaultOpenHour
CloseHour(room) == IF room.operatingHours.end # <<>>
                   THEN room.operatingHours.end[1] ELSE DefaultCloseHour

\* The working hours check of create and update: TRUE when the request is
\* refused.
OutsideHours(room, s, e, zone) ==
    LET isMultiDay == toDateString(s, zone) # toDateString(e, zone)
    IN  /\ ~isMultiDay
        /\ \/ JakartaHour(s) < OpenHour(room)
           \/ JakartaHour(e) > CloseHour(room)

\* --------------------------------------------------- Booking model (store)
\* Booking.checkConflict(roomId, start, end, excludeBookingId): the stored
\* bookings of the room, not cancelled or rejected, that overlap [start, end).
checkConflict(bk, roomId, s, e, exclude) ==
    { id \in BookingIds :
        /\ bk[id] # NoBooking
        /\ id # exclude
        /\ bk[id].roomId = roomId
        /\ bk[id].status \notin { "cancelled", "rejected" }
        /\ bk[id].startTime < e
        /\ bk[id].endTime > s }

\* booking.updateStatus(status, note, actor): status and audit annotation
\* are saved together.
updateStatus(b, status, note, actor) ==
    [b EXCEPT !.status = status, !.note = note, !.actor = actor]

\* deleteFile(path) of the upload middleware
deleteFile(fs, path) == fs \ { path }

\* res.status(..).json(..): the handler answers; the next request is served
\* once the answer has been delivered.
NoResponse ==
    [ op |-> "none", caller |-> "", id |-> 0, result |-> "", mail |-> "none",
      mailStatus |-> "", data |-> NoBooking ]
Idle == last = NoResponse
Respond(op, caller, id, result) ==
    last' = [ op |-> op, caller |-> caller, id |-> id, result |-> result,
              mail |-> "none", mailStatus |-> "", data |-> NoBooking ]

\* ------------------------------------------------------------- requests
\* A timestamp of a request body: new Date(x) of a well-formed string is an
\* instant, of any other string is Invalid Date; the field may be missing.
Date(t) == [kind |-> "date", t |-> t]
InvalidDate == [kind |-> "invalid", t |-> 0]
MissingDate == [kind |-> "missing", t |-> 0]

\* participantsCount of a request body: absent, or a string of digits that
\* may be followed by other characters ("2", "2x").
NoCount == [given |-> FALSE, digits |-> 0, junk |-> FALSE]
Count(d, j) == [given |-> TRUE, digits |-> d, junk |-> j]
\* participantsCount > room.capacity: the string is converted by Number(),
\* which is NaN for "2x", and every comparison with NaN is false.
ExceedsCapacity(c, room) == c.given /\ ~c.junk /\ c.digits > room.capacity
\* parseInt(participantsCount): the leading digits
parseInt(c) == c.digits

MissingRoom == "missing"

\* A booking id of a request: 0 stands for a string that is no ObjectId
\* (findById throws CastError), an id of BookingIds without a record for a
\* well-formed id of no booking.
IdInputs == 0..MaxBookings
Malformed(id) == id \notin BookingIds

\* ------------------------------------------------- router.post('/') create
\* Mutation: the create that skips its conflict check.
CreateConflictSkipped(bk, req) == {}

\* Mutation: the create whose conflict check counts approved bookings only.
CreateConflictApprovedOnly(bk, req) ==
    { id \in checkConflict(bk, req.roomId, req.startTime.t, req.endTime.t, 0) :
        bk[id].status = "approved" }

\* Mutation: the create whose conflict check takes the intervals as closed.
CreateConflictClosed(bk, req) ==
    checkConflict(bk, req.roomId, req.startTime.t - 1, req.endTime.t + 1, 0)

\* The conflict check of a create.
CreateConflict(bk, req) ==
    checkConflict(bk, req.roomId, req.startTime.t, req.endTime.t, 0)

\* Mutation: the create that looks the room up but ignores its isActive flag.
CreateResultAnyRoom(bk, t, zone, req) ==
    IF req.roomId = MissingRoom \/ ~req.hasName
       \/ req.startTime.kind = "missing" \/ req.endTime.kind = "missing"
    THEN "InvalidInput"
    ELSE IF req.roomId \notin Rooms
    THEN "NotFound"
    ELSE IF req.startTime.kind = "invalid" \/ req.endTime.kind = "invalid"
    THEN "InvalidInput"
    ELSE IF req.endTime.t <= req.startTime.t
    THEN "InvalidInput"
    ELSE IF req.startTime.t < t
    THEN "InvalidInput"
    ELSE IF CreateConflict(bk, req) # {}
    THEN "Conflict"
    ELSE IF ExceedsCapacity(req.count, Room(req.roomId))
    THEN "CapacityExceeded"
    ELSE IF OutsideHours(Room(req.roomId), req.startTime.t, req.endTime.t, zone)
    THEN "OutOfOperatingHours"
    ELSE IF ~req.hasPurpose
    THEN "Internal"
    ELSE "ok"

\* The response of a create request against the store bk at instant t; "ok"
\* when every check passes and the handler reaches Booking.create.
CreateResult(bk, t, zone, req) ==
    IF req.roomId = MissingRoom \/ ~req.hasName
       \/ req.startTime.kind = "missing" \/ req.endTime.kind = "missing"
    THEN "InvalidInput"
    ELSE IF req.roomId \notin Rooms \/ ~Room(req.roomId).isActive
    THEN "NotFound"
    ELSE IF req.startTime.kind = "invalid" \/ req.endTime.kind = "invalid"
    THEN "InvalidInput"
    ELSE IF req.endTime.t <= req.startTime.t
    THEN "InvalidInput"
    ELSE IF req.startTime.t < t
    THEN "InvalidInput"
    ELSE IF CreateConflict(bk, req) # {}
    THEN "Conflict"
    ELSE IF ExceedsCapacity(req.count, Room(req.roomId))
    THEN "CapacityExceeded"
    ELSE IF OutsideHours(Room(req.roomId), req.startTime.t, req.endTime.t, zone)
    THEN "OutOfOperatingHours"
    ELSE IF ~req.hasPurpose
    THEN "Internal"       \* purpose.trim() throws: the catch block answers
    ELSE "ok"

\* Mutation: bookingData with endTime taken from the start of the request.
CreateRecordEndFromStart(caller, req, doc) ==
    [ owner |-> caller, roomId |-> req.roomId,
      startTime |-> req.startTime.t, endTime |-> req.startTime.t,
      status |-> "pending",
      participantsCount |-> IF req.count.given THEN parseInt(req.count) ELSE 1,
      documentPath |-> doc, note |-> "", actor |-> "" ]

\* bookingData of a create request; doc is req.file.path or NoFile
CreateRecord(caller, req, doc) ==
    [ owner |-> caller, roomId |-> req.roomId,
      startTime |-> req.startTime.t, endTime |-> req.endTime.t,
      status |-> "pending",
      participantsCount |-> IF req.count.given THEN parseInt(req.count) ELSE 1,
      documentPath |-> doc, note |-> "", actor |-> "" ]

\* The files on disk when a create request that carried upload `doc` is
\* answered with `result`: only the catch block deletes the upload.
CreateFiles(fs, doc, result) ==
    IF doc # NoFile /\ result = "Internal" THEN deleteFile(fs, doc) ELSE fs

\* uploadDocument: the middleware stores the upload before the handler runs
Uploaded(hasFile) == IF hasFile THEN nextFile ELSE NoFile
UploadStep(hasFile) ==
    /\ hasFile => nextFile <= MaxFiles
    /\ nextFile' = IF hasFile THEN nextFile + 1 ELSE nextFile
WithUpload(fs, doc) == IF doc # NoFile THEN fs \cup { doc } ELSE fs

\* Ids the store can still hand out, one kept for a suspended create.
IdsLeft == MaxBookings + 1 - nextId - (IF pend.op = "create" THEN 1 ELSE 0)

\* A create request handled without interruption.
Create(caller, req) ==
    LET doc == Uploaded(req.file)
        result == CreateResult(bookings, now, tz, req)
    IN  /\ Idle
        /\ UploadStep(req.file)
        /\ IF result = "ok"
           THEN /\ IdsLeft > 0
                /\ bookings' = [bookings EXCEPT ![nextId] = CreateRecord(caller, req, doc)]
                /\ nextId' = nextId + 1
                /\ files' = WithUpload(files, doc)
                /\ Respond("create", caller, nextId, "ok")
           ELSE /\ files' = CreateFiles(WithUpload(files, doc), doc, result)
                /\ Respond("create", caller, 0, result)
                /\ UNCHANGED << bookings, nextId >>
        /\ UNCHANGED << now, tz, activeRooms, pend >>

\* ---------------------------------------------- router.get('/:id') get one
\* Mutation: the read without the ownership check.
GetResultAnyCaller(bk, caller, id) ==
    IF Malformed(id) THEN "NotFound"
    ELSE IF bk[id] = NoBooking THEN "NotFound"
    ELSE "ok"

\* The checks of a read of one booking.
GetResult(bk, caller, id) ==
    IF Malformed(id) THEN "NotFound"             \* CastError, in the catch block
    ELSE IF bk[id] = NoBooking THEN "NotFound"
    ELSE IF bk[id].owner # caller /\ Role(caller) # "admin" THEN "Forbidden"
    ELSE "ok"

\* data of the answer: booking.toObject() of the record that was read
GetData(bk, caller, id) ==
    IF GetResult(bk, caller, id) = "ok" THEN bk[id] ELSE NoBooking

GetOne(caller, id) ==
    /\ Idle
    /\ last' = [ op |-> "get", caller |-> caller, id |-> id,
                 result |-> GetResult(bookings, caller, id),
                 mail |-> "none", mailStatus |-> "",
                 data |-> GetData(bookings, caller, id) ]
    /\ UNCHANGED << bookings, nextId, files, nextFile, now, tz, activeRooms, pend >>

\* ------------------------------------------------ router.put('/:id') update
\* Mutation: the update guards without the status guard.
UpdateGuardAnyStatus(bk, t, caller, id) ==
    IF Malformed(id) THEN "NotFound"
    ELSE IF bk[id] = NoBooking THEN "NotFound"
    ELSE IF bk[id].owner # caller THEN "Forbidden"
    ELSE IF bk[id].startTime < t THEN "InvalidState"
    ELSE IF ~Room(bk[id].roomId).isActive THEN "NotFound"
    ELSE "ok"

\* The guards of an update, up to the room lookup.
UpdateGuard(bk, t, caller, id) ==
    IF Malformed(id) THEN "NotFound"             \* CastError, in the catch block
    ELSE IF bk[id] = NoBooking THEN "NotFound"
    ELSE IF bk[id].owner # caller THEN "Forbidden"
    ELSE IF bk[id].status # "pending" THEN "InvalidState"
    ELSE IF bk[id].startTime < t THEN "InvalidState"
    ELSE IF ~Room(bk[id].roomId).isActive THEN "NotFound"
    ELSE "ok"

\* The new interval of an update: a bound that is not supplied is the
\* stored one.
NewStart(b, req) == IF req.startTime.kind = "missing" THEN Date(b.startTime)
                    ELSE req.startTime
NewEnd(b, req) == IF req.endTime.kind = "missing" THEN Date(b.endTime)
                  ELSE req.endTime
ChangesTime(req) == req.startTime.kind # "missing" \/ req.endTime.kind # "missing"

\* Mutation: the update that skips its conflict check.
UpdateConflictSkipped(bk, id, s, e) == {}

\* The conflict check of an update, excluding the booking itself.
UpdateConflict(bk, id, s, e) == checkConflict(bk, bk[id].roomId, s, e, id)

\* Mutation: the update that validates the interval and checks conflicts
\* whether or not the request supplies a bound.
UpdateTimeResultAlways(bk, t, zone, id, req) ==
    LET s == NewStart(bk[id], req)
        e == NewEnd(bk[id], req)
    IN  IF s.kind = "invalid" \/ e.kind = "invalid" THEN "InvalidInput"
        ELSE IF e.t <= s.t THEN "InvalidInput"
        ELSE IF s.t < t THEN "InvalidInput"
        ELSE IF OutsideHours(Room(bk[id].roomId), s.t, e.t, zone)
        THEN "OutOfOperatingHours"
        ELSE IF UpdateConflict(bk, id, s.t, e.t) # {} THEN "Conflict"
        ELSE "ok"

\* The time validation and conflict check of an update that supplies a
\* start or an end.
UpdateTimeResult(bk, t, zone, id, req) ==
    LET s == NewStart(bk[id], req)
        e == NewEnd(bk[id], req)
    IN  IF ~ChangesTime(req) THEN "ok"
        ELSE IF s.kind = "invalid" \/ e.kind = "invalid" THEN "InvalidInput"
        ELSE IF e.t <= s.t THEN "InvalidInput"
        ELSE IF s.t < t THEN "InvalidInput"
        ELSE IF OutsideHours(Room(bk[id].roomId), s.t, e.t, zone)
        THEN "OutOfOperatingHours"
        ELSE IF UpdateConflict(bk, id, s.t, e.t) # {} THEN "Conflict"
        ELSE "ok"

UpdateResult(bk, t, zone, caller, id, req) ==
    IF UpdateGuard(bk, t, caller, id) # "ok" THEN UpdateGuard(bk, t, caller, id)
    ELSE UpdateTimeResult(bk, t, zone, id, req)

\* updateData, built from the request and the booking as it was read: the
\* fields to set and their values.
UpdateData(b, req, doc) ==
    [ setCount |-> req.count.given,
      participantsCount |-> IF req.count.given THEN parseInt(req.count) ELSE 0,
      documentPath |-> doc,
      setTime |-> ChangesTime(req),
      startTime |-> IF ChangesTime(req) THEN NewStart(b, req).t ELSE 0,
      endTime |-> IF ChangesTime(req) THEN NewEnd(b, req).t ELSE 0 ]

\* findByIdAndUpdate(id, updateData) on the stored record b
ApplyUpdate(b, data) ==
    [ b EXCEPT
        !.participantsCount = IF data.setCount THEN data.participantsCount ELSE @,
        !.documentPath = IF data.documentPath # NoFile THEN data.documentPath ELSE @,
        !.startTime = IF data.setTime THEN data.startTime ELSE @,
        !.endTime = IF data.setTime THEN data.endTime ELSE @ ]

\* The files on disk when an update that carried upload `doc` has run up to
\* its answer: past the guards the old document is deleted before the time
\* validation; the catch block (CastError) deletes the upload.
UpdateFiles(bk, fs, t, caller, id, doc) ==
    IF doc = NoFile THEN fs
    ELSE IF Malformed(id) THEN deleteFile(fs, doc)
    ELSE IF UpdateGuard(bk, t, caller, id) = "ok" /\ bk[id].documentPath # NoFile
    THEN deleteFile(fs, bk[id].documentPath)
    ELSE fs

\* An update request handled without interruption.
Update(caller, id, req) ==
    LET doc == Uploaded(req.file)
        result == UpdateResult(bookings, now, tz, caller, id, req)
    IN  /\ Idle
        /\ UploadStep(req.file)
        /\ files' = UpdateFiles(bookings, WithUpload(files, doc), now, caller, id, doc)
        /\ bookings' = IF result = "ok"
                       THEN [bookings EXCEPT
                               ![id] = ApplyUpdate(@, UpdateData(@, req, doc))]
                       ELSE bookings
        /\ Respond("update", caller, id, result)
        /\ UNCHANGED << nextId, now, tz, activeRooms, pend >>

\* ---------------------------------------- router.patch('/:id/cancel') cancel
\* Mutation: the cancel that lets an admin pass the ownership check.
CancelResultAdminAllowed(bk, t, caller, id) ==
    IF Malformed(id) THEN "Internal"
    ELSE IF bk[id] = NoBooking THEN "NotFound"
    ELSE IF bk[id].owner # caller /\ Role(caller) # "admin" THEN "Forbidden"
    ELSE IF bk[id].status = "cancelled" \/ bk[id].status = "rejected"
    THEN "InvalidState"
    ELSE IF bk[id].startTime < t THEN "InvalidState"
    ELSE "ok"

CancelResult(bk, t, caller, id) ==
    IF Malformed(id) THEN "Internal"             \* CastError, answered 500
    ELSE IF bk[id] = NoBooking THEN "NotFound"
    ELSE IF bk[id].owner # caller THEN "Forbidden"
    ELSE IF bk[id].status = "cancelled" \/ bk[id].status = "rejected"
    THEN "InvalidState"
    ELSE IF bk[id].startTime < t THEN "InvalidState"
    ELSE "ok"

\* 'Dibatalkan oleh user'
UserCancelNote == "cancelled by user"

\* Mutation: the cancel that saves the status and leaves the audit
\* annotation of the previous transition.
CancelStatusOnly(caller, id) ==
    LET result == CancelResult(bookings, now, caller, id)
    IN  /\ Idle
        /\ bookings' = IF result = "ok"
                       THEN [bookings EXCEPT ![id].status = "cancelled"]
                       ELSE bookings
        /\ Respond("cancel", caller, id, result)
        /\ UNCHANGED << nextId, files, nextFile, now, tz, activeRooms, pend >>

Cancel(caller, id) ==
    LET result == CancelResult(bookings, now, caller, id)
    IN  /\ Idle
        /\ bookings' = IF result = "ok"
                       THEN [bookings EXCEPT
                               ![id] = updateStatus(@, "cancelled", UserCancelNote, caller)]
                       ELSE bookings
        /\ Respond("cancel", caller, id, result)
        /\ UNCHANGED << nextId, files, nextFile, now, tz, activeRooms, pend >>

\* -------------------------------------------- router.delete('/:id') delete
Terminal == { "cancelled", "rejected", "completed" }

\* Mutation: the owner delete without the status guard.
DeleteResultAnyStatus(bk, caller, id) ==
    IF Malformed(id) THEN "Internal"
    ELSE IF bk[id] = NoBooking THEN "NotFound"
    ELSE IF bk[id].owner # caller THEN "Forbidden"
    ELSE "ok"

\* Mutation: the owner delete that accepts cancelled bookings only.
DeleteResultCancelledOnly(bk, caller, id) ==
    IF Malformed(id) THEN "Internal"
    ELSE IF bk[id] = NoBooking THEN "NotFound"
    ELSE IF bk[id].owner # caller THEN "Forbidden"
    ELSE IF bk[id].status # "cancelled" THEN "InvalidState"
    ELSE "ok"

\* The checks of an owner delete.
DeleteResult(bk, caller, id) ==
    IF Malformed(id) THEN "Internal"             \* CastError, answered 500
    ELSE IF bk[id] = NoBooking THEN "NotFound"
    ELSE IF bk[id].owner # caller THEN "Forbidden"
    ELSE IF bk[id].status \notin Terminal THEN "InvalidState"
    ELSE "ok"

\* The document file and the record are removed.
Remove(id) ==
    /\ files' = IF bookings[id].documentPath # NoFile
                THEN deleteFile(files, bookings[id].documentPath) ELSE files
    /\ bookings' = [bookings EXCEPT ![id] = NoBooking]

Delete(caller, id) ==
    LET result == DeleteResult(bookings, caller, id)
    IN  /\ Idle
        /\ IF result = "ok" THEN Remove(id) ELSE UNCHANGED << bookings, files >>
        /\ Respond("delete", caller, id, result)
        /\ UNCHANGED << nextId, nextFile, now, tz, activeRooms, pend >>

\* ------------------------------------ router.delete('/admin/:id') admin delete
\* authorize('admin') refuses every caller whose role is not admin.
AdminDeleteResult(bk, caller, id) ==
    IF Role(caller) # "admin" THEN "Forbidden"
    ELSE IF Malformed(id) THEN "Internal"        \* CastError, answered 500
    ELSE IF bk[id] = NoBooking THEN "NotFound"
    ELSE "ok"

AdminDelete(caller, id) ==
    LET result == AdminDeleteResult(bookings, caller, id)
    IN  /\ Idle
        /\ IF result = "ok" THEN Remove(id) ELSE UNCHANGED << bookings, files >>
        /\ Respond("adminDelete", caller, id, result)
        /\ UNCHANGED << nextId, nextFile, now, tz, activeRooms, pend >>

\* ------------------------------------ router.patch('/:id/status') set status
MissingStatus == ""
StatusInputs == { "approved", "rejected", "completed", "cancelled", MissingStatus }

\* Mutation: the approval check that counts approved bookings only.
ApproveConflictApprovedOnly(bk, id) ==
    { other \in BookingIds :
        /\ other # id
        /\ bk[other] # NoBooking
        /\ bk[other].roomId = bk[id].roomId
        /\ bk[other].status = "approved"
        /\ bk[other].startTime < bk[id].endTime
        /\ bk[other].endTime > bk[id].startTime }

\* The conflict check of an approval, excluding the booking itself.
ApproveConflict(bk, id) ==
    checkConflict(bk, bk[id].roomId, bk[id].startTime, bk[id].endTime, id)

\* Mutation: the guards that let any booking be rejected.
SetStatusResultRejectAny(bk, caller, id, status) ==
    IF Role(caller) # "admin" THEN "Forbidden"
    ELSE IF status = MissingStatus THEN "InvalidInput"
    ELSE IF status \notin { "approved", "rejected", "completed" } THEN "InvalidInput"
    ELSE IF Malformed(id) THEN "NotFound"
    ELSE IF bk[id] = NoBooking THEN "NotFound"
    ELSE IF status = "completed" /\ bk[id].status # "approved" THEN "InvalidState"
    ELSE IF status = "approved" /\ bk[id].status # "pending" THEN "InvalidState"
    ELSE IF status = "approved" /\ ApproveConflict(bk, id) # {}
    THEN "Conflict"
    ELSE "ok"

\* The checks of a set-status request: authorize('admin'), the target
\* status, the booking, the guards of the transition, the conflict check of
\* an approval.
SetStatusResult(bk, caller, id, status) ==
    IF Role(caller) # "admin" THEN "Forbidden"
    ELSE IF status = MissingStatus THEN "InvalidInput"
    ELSE IF status \notin { "approved", "rejected", "completed" } THEN "InvalidInput"
    ELSE IF Malformed(id) THEN "NotFound"        \* CastError, in the catch block
    ELSE IF bk[id] = NoBooking THEN "NotFound"
    ELSE IF status = "completed" /\ bk[id].status # "approved" THEN "InvalidState"
    ELSE IF (status = "approved" \/ status = "rejected") /\ bk[id].status # "pending"
    THEN "InvalidState"
    ELSE IF status = "approved" /\ ApproveConflict(bk, id) # {}
    THEN "Conflict"
    ELSE "ok"

\* sendBookingNotification(booking, status): the mail is sent, or the call
\* throws.
NotifyOutcomes == { "sent", "failed" }

\* Mutation: the notification sent outside its try block; the error reaches
\* the handler's catch block.
AfterNotifyUncaught(result, outcome) ==
    IF outcome = "failed" THEN "Internal" ELSE result

\* try { await sendBookingNotification(..) } catch (emailError) { log }: the
\* answer of the request after the notification attempt.
AfterNotify(result, outcome) == result

\* The answer of a set-status request whose status has been saved:
\* sendBookingNotification(booking, status) has been attempted.
RespondNotified(caller, id, status, outcome) ==
    last' = [ op |-> "setStatus", caller |-> caller, id |-> id,
              result |-> AfterNotify("ok", outcome), mail |-> outcome,
              mailStatus |-> status, data |-> NoBooking ]

\* Mutation: the set-status that attempts the notification whether or not
\* the guards passed.
SetStatusNotifiesAlways(caller, id, status, adminNote) ==
    LET result == SetStatusResult(bookings, caller, id, status)
    IN  /\ Idle
        /\ IF result = "ok"
           THEN /\ bookings' = [bookings EXCEPT
                       ![id] = updateStatus(@, status, adminNote, caller)]
                /\ \E outcome \in NotifyOutcomes :
                       RespondNotified(caller, id, status, outcome)
           ELSE /\ UNCHANGED bookings
                /\ \E outcome \in NotifyOutcomes :
                       last' = [ op |-> "setStatus", caller |-> caller, id |-> id,
                                 result |-> result, mail |-> outcome,
                                 mailStatus |-> status, data |-> NoBooking ]
        /\ UNCHANGED << nextId, files, nextFile, now, tz, activeRooms, pend >>

\* adminNote || ''
SetStatus(caller, id, status, adminNote) ==
    LET result == SetStatusResult(bookings, caller, id, status)
    IN  /\ Idle
        /\ IF result = "ok"
           THEN /\ bookings' = [bookings EXCEPT
                       ![id] = updateStatus(@, status, adminNote, caller)]
                /\ \E outcome \in NotifyOutcomes :
                       RespondNotified(caller, id, status, outcome)
           ELSE /\ UNCHANGED bookings
                /\ Respond("setStatus", caller, id, result)
        /\ UNCHANGED << nextId, files, nextFile, now, tz, activeRooms, pend >>

\* ------------------------------------------- handlers that overlap others
\* A handler is suspended at each await.  Its checks only read, so what
\* other handlers can observe or disturb is the gap between its last check
\* and its store write: the handler passes its checks (Begin), other
\* handlers run, and then its write reaches the store (Commit).
CreateBegin(caller, req) ==
    LET doc == Uploaded(req.file)
    IN  /\ Idle
        /\ pend = NoPend
        /\ IdsLeft > 0
        /\ CreateResult(bookings, now, tz, req) = "ok"
        /\ UploadStep(req.file)
        /\ files' = WithUpload(files, doc)
        /\ pend' = [ op |-> "create", caller |-> caller, id |-> 0,
                     data |-> CreateRecord(caller, req, doc) ]
        /\ UNCHANGED << bookings, nextId, now, tz, activeRooms, last >>

\* Booking.create(bookingData)
CreateCommit ==
    /\ Idle
    /\ pend.op = "create"
    /\ bookings' = [bookings EXCEPT ![nextId] = pend.data]
    /\ nextId' = nextId + 1
    /\ Respond("create", pend.caller, nextId, "ok")
    /\ pend' = NoPend
    /\ UNCHANGED << files, nextFile, now, tz, activeRooms >>

UpdateBegin(caller, id, req) ==
    LET doc == Uploaded(req.file)
    IN  /\ Idle
        /\ pend = NoPend
        /\ UpdateResult(bookings, now, tz, caller, id, req) = "ok"
        /\ UploadStep(req.file)
        /\ files' = UpdateFiles(bookings, WithUpload(files, doc), now, caller, id, doc)
        /\ pend' = [ op |-> "update", caller |-> caller, id |-> id,
                     data |-> UpdateData(bookings[id], req, doc) ]
        /\ UNCHANGED << bookings, nextId, now, tz, activeRooms, last >>

\* Booking.findByIdAndUpdate(id, updateData): null when the record is gone,
\* and updatedBooking.toObject() then throws into the catch block, which
\* deletes the upload.
UpdateCommit ==
    /\ Idle
    /\ pend.op = "update"
    /\ IF bookings[pend.id] # NoBooking
       THEN /\ bookings' = [bookings EXCEPT ![pend.id] = ApplyUpdate(@, pend.data)]
            /\ Respond("update", pend.caller, pend.id, "ok")
            /\ UNCHANGED files
       ELSE /\ files' = IF pend.data.documentPath # NoFile
                        THEN deleteFile(files, pend.data.documentPath) ELSE files
            /\ Respond("update", pend.caller, pend.id, "Internal")
            /\ UNCHANGED bookings
    /\ pend' = NoPend
    /\ UNCHANGED << nextId, nextFile, now, tz, activeRooms >>

CancelBegin(caller, id) ==
    /\ Idle
    /\ pend = NoPend
    /\ CancelResult(bookings, now, caller, id) = "ok"
    /\ pend' = [ op |-> "cancel", caller |-> caller, id |-> id,
                 data |-> [status |-> "cancelled", note |-> UserCancelNote] ]
    /\ UNCHANGED << bookings, nextId, files, nextFile, now, tz, activeRooms, last >>

SetStatusBegin(caller, id, status, adminNote) ==
    /\ Idle
    /\ pend = NoPend
    /\ SetStatusResult(bookings, caller, id, status) = "ok"
    /\ pend' = [ op |-> "setStatus", caller |-> caller, id |-> id,
                 data |-> [status |-> status, note |-> adminNote] ]
    /\ UNCHANGED << bookings, nextId, files, nextFile, now, tz, activeRooms, last >>

\* booking.updateStatus(status, note, actor) of a cancel or a set-status:
\* the save writes status and annotation to the stored record, and fails
\* when the record is gone.
StatusCommit ==
    /\ Idle
    /\ pend.op \in { "cancel", "setStatus" }
    /\ IF bookings[pend.id] # NoBooking
       THEN /\ bookings' = [bookings EXCEPT
                   ![pend.id] = updateStatus(@, pend.data.status, pend.data.note,
                                             pend.caller)]
            /\ IF pend.op = "setStatus"
               THEN \E outcome \in NotifyOutcomes :
                      RespondNotified(pend.caller, pend.id, pend.data.status, outcome)
               ELSE Respond(pend.op, pend.caller, pend.id, "ok")
       ELSE /\ Respond(pend.op, pend.caller, pend.id, "Internal")
            /\ UNCHANGED bookings
    /\ pend' = NoPend
    /\ UNCHANGED << nextId, files, nextFile, now, tz, activeRooms >>

\* ------------------------------------------------------ the Room Registry
\* An administrator of the rooms deactivates a room.
Deactivate(r) ==
    /\ Idle
    /\ r \in activeRooms
    /\ activeRooms' = activeRooms \ { r }
    /\ UNCHANGED << bookings, nextId, files, nextFile, now, tz, pend, last >>

\* ------------------------------------------------------------ the clock
Tick ==
    /\ Idle
    /\ now + Step \in Times
    /\ now' = now + Step
    /\ UNCHANGED << bookings, nextId, files, nextFile, tz, activeRooms, pend, last >>

\* The client receives the answer.
Deliver ==
    /\ ~Idle
    /\ last' = NoResponse
    /\ UNCHANGED << bookings, nextId, files, nextFile, now, tz, activeRooms, pend >>

\* ------------------------------------------------------ the request sets
\* u1 books rooms; a1 administers them.
Creators == { "u1" }
\* u2 is a user who owns no booking.
Readers == Users \cup { "u2" }
Admins == { "a1" }

GoodCreate(s, e) ==
    [ roomId |-> "r1", hasName |-> TRUE, startTime |-> Date(s), endTime |-> Date(e),
      count |-> NoCount, hasPurpose |-> TRUE, file |-> FALSE ]
AnyCreate == GoodCreate(Base, Base + Step)

\* The intervals of the time grid.
Pairs == { p \in Times \X Times : p[1] < p[2] }

\* Creates over the time grid, and one request for each way to be refused.
CreateRequests ==
    { GoodCreate(p[1], p[2]) : p \in Pairs }
    \cup { GoodCreate(Base + Step, Base), GoodCreate(Base, Base) }
    \cup { [AnyCreate EXCEPT !.roomId = r] : r \in { "r2", "rX", MissingRoom } }
    \cup { [AnyCreate EXCEPT !.hasName = FALSE],
           [AnyCreate EXCEPT !.startTime = MissingDate],
           [AnyCreate EXCEPT !.endTime = InvalidDate],
           [AnyCreate EXCEPT !.hasPurpose = FALSE] }

NoChange == [ startTime |-> MissingDate, endTime |-> MissingDate,
              count |-> NoCount, file |-> FALSE ]
\* Updates of both bounds, of one bound, of none, and of an unparsable end.
UpdateRequests ==
    { [NoChange EXCEPT !.startTime = Date(p[1]), !.endTime = Date(p[2])] :
        p \in Pairs }
    \cup { [NoChange EXCEPT !.startTime = Date(s)] : s \in Times }
    \cup { [NoChange EXCEPT !.endTime = Date(e)] : e \in Times }
    \cup { NoChange, [NoChange EXCEPT !.endTime = InvalidDate] }

\* Requests for one interval, with and without an attachment, accepted and
\* refused.
DocCreateRequests ==
    { [AnyCreate EXCEPT !.file = f] : f \in BOOLEAN }
    \cup { [AnyCreate EXCEPT !.file = TRUE, !.hasName = FALSE],
           [AnyCreate EXCEPT !.file = TRUE, !.hasPurpose = FALSE] }
DocUpdateRequests ==
    { [NoChange EXCEPT !.file = f] : f \in BOOLEAN }
    \cup { [NoChange EXCEPT !.file = TRUE, !.endTime = InvalidDate] }

\* Requests for one interval, with and without a participants count
\* ("1", "2", "2x").
CapCreateRequests ==
    { AnyCreate } \cup { [AnyCreate EXCEPT !.count = Count(d, j)] :
                           d \in 1..2, j \in BOOLEAN }
CapUpdateRequests ==
    { NoChange } \cup { [NoChange EXCEPT !.count = Count(d, FALSE)] : d \in 1..2 }

AdminNotes == { "", "note" }

\* The server's zone: UTC.
ServerZones == { 0 }

Init ==
    /\ bookings = [id \in BookingIds |-> NoBooking]
    /\ nextId = 1
    /\ files = {}
    /\ nextFile = 1
    /\ now = Base
    /\ tz \in ServerZones
    /\ activeRooms = { "r1" }
    /\ pend = NoPend
    /\ last = NoResponse

Next ==
    \/ \E caller \in Creators, req \in CreateRequests : Create(caller, req)
    \/ \E caller \in Users, id \in IdInputs, req \in UpdateRequests :
         Update(caller, id, req)
    \/ \E caller \in Users, id \in IdInputs : Cancel(caller, id)
    \/ \E caller \in Users, id \in IdInputs : Delete(caller, id)
    \/ \E caller \in Users, id \in IdInputs : AdminDelete(caller, id)
    \/ \E caller \in Users, id \in IdInputs, status \in StatusInputs,
          adminNote \in AdminNotes : SetStatus(caller, id, status, adminNote)
    \/ \E caller \in Readers, id \in IdInputs : GetOne(caller, id)
    \/ Tick
    \/ Deliver

\* Handlers run one at a time; the requests range over the time grid and
\* carry no attachment and no participants count.
Spec == Init /\ [][Next]_vars

NextDocs ==
    \/ \E caller \in Creators, req \in DocCreateRequests : Create(caller, req)
    \/ \E caller \in Users, id \in IdInputs, req \in DocUpdateRequests :
         Update(caller, id, req)
    \/ \E caller \in Users, id \in IdInputs : Cancel(caller, id)
    \/ \E caller \in Users, id \in IdInputs : Delete(caller, id)
    \/ \E caller \in Users, id \in IdInputs : AdminDelete(caller, id)
    \/ \E caller \in Users, id \in IdInputs, status \in StatusInputs,
          adminNote \in AdminNotes : SetStatus(caller, id, status, adminNote)
    \/ Tick
    \/ Deliver

\* Handlers run one at a time; the requests are for one interval and carry
\* attachments.
SpecDocs == Init /\ [][NextDocs]_vars

NextCapacity ==
    \/ \E caller \in Creators, req \in CapCreateRequests : Create(caller, req)
    \/ \E caller \in Users, id \in IdInputs, req \in CapUpdateRequests :
         Update(caller, id, req)
    \/ \E caller \in Users, id \in IdInputs : Cancel(caller, id)
    \/ \E caller \in Users, id \in IdInputs : Delete(caller, id)
    \/ \E caller \in Users, id \in IdInputs : AdminDelete(caller, id)
    \/ \E caller \in Users, id \in IdInputs, status \in StatusInputs,
          adminNote \in AdminNotes : SetStatus(caller, id, status, adminNote)
    \/ Tick
    \/ Deliver

\* Handlers run one at a time; the requests are for one interval and carry
\* participants counts.
SpecCapacity == Init /\ [][NextCapacity]_vars

\* The requests of overlapping handlers: well-formed creates and updates
\* over the time grid by the user, the three target statuses with one admin
\* note by the admin.
RaceCreateRequests == { GoodCreate(p[1], p[2]) : p \in Pairs }
RaceUpdateRequests ==
    { [NoChange EXCEPT !.startTime = Date(p[1]), !.endTime = Date(p[2])] :
        p \in Pairs }
RaceStatuses == { "approved", "rejected", "completed" }
RaceNotes == { "note" }

NextRace ==
    \/ \E caller \in Creators, req \in RaceCreateRequests : Create(caller, req)
    \/ \E caller \in Creators, id \in BookingIds, req \in RaceUpdateRequests :
         Update(caller, id, req)
    \/ \E caller \in Creators, id \in BookingIds : Cancel(caller, id)
    \/ \E caller \in Creators, id \in BookingIds : Delete(caller, id)
    \/ \E caller \in Admins, id \in BookingIds : AdminDelete(caller, id)
    \/ \E caller \in Admins, id \in BookingIds, status \in RaceStatuses,
          adminNote \in RaceNotes : SetStatus(caller, id, status, adminNote)
    \/ \E caller \in Creators, req \in RaceCreateRequests : CreateBegin(caller, req)
    \/ CreateCommit
    \/ \E caller \in Creators, id \in BookingIds, req \in RaceUpdateRequests :
         UpdateBegin(caller, id, req)
    \/ UpdateCommit
    \/ \E caller \in Creators, id \in BookingIds : CancelBegin(caller, id)
    \/ \E caller \in Admins, id \in BookingIds, status \in RaceStatuses,
          adminNote \in RaceNotes : SetStatusBegin(caller, id, status, adminNote)
    \/ StatusCommit
    \/ Deliver

\* Handlers overlap: one handler at a time is between its checks and its
\* store write while the others run.  The clock stands still.
SpecRace == Init /\ [][NextRace]_vars

\* Requests around 07:00 local time, which is midnight UTC: 06:00, 07:00,
\* 08:00 and 09:00 of the next local day and 06:00 of the day after.
LocalDayStart == MinutesPerDay
ZoneTimes ==
    { LocalDayStart - MinutesPerHour, LocalDayStart,
      LocalDayStart + MinutesPerHour, LocalDayStart + 2 * MinutesPerHour,
      LocalDayStart + MinutesPerDay - MinutesPerHour }
ZonePairs == { p \in ZoneTimes \X ZoneTimes : p[1] < p[2] }
ZoneCreateRequests == { GoodCreate(p[1], p[2]) : p \in ZonePairs }
ZoneUpdateRequests ==
    { [NoChange EXCEPT !.startTime = Date(p[1]), !.endTime = Date(p[2])] :
        p \in ZonePairs }

\* The zone of the machine that runs the handlers: UTC or UTC+7.
MachineZones == { 0, JakartaOffset * MinutesPerHour }

InitZones ==
    /\ bookings = [id \in BookingIds |-> NoBooking]
    /\ nextId = 1
    /\ files = {}
    /\ nextFile = 1
    /\ now = Base
    /\ tz \in MachineZones
    /\ activeRooms = { "r1" }
    /\ pend = NoPend
    /\ last = NoResponse

NextZones ==
    \/ \E caller \in Creators, req \in ZoneCreateRequests : Create(caller, req)
    \/ \E caller \in Users, id \in IdInputs, req \in ZoneUpdateRequests :
         Update(caller, id, req)
    \/ \E caller \in Users, id \in IdInputs : Cancel(caller, id)
    \/ \E caller \in Users, id \in IdInputs : Delete(caller, id)
    \/ \E caller \in Users, id \in IdInputs : AdminDelete(caller, id)
    \/ \E caller \in Users, id \in IdInputs, status \in StatusInputs,
          adminNote \in AdminNotes : SetStatus(caller, id, status, adminNote)
    \/ Tick
    \/ Deliver

\* Handlers run one at a time on a machine in either zone, with requests
\* around midnight UTC.
SpecZones == InitZones /\ [][NextZones]_vars

\* Creates of two adjacent intervals in r1, in r2 and in rX, and updates of
\* nothing and of the interval.
RoomIntervals == { << Base, Base + Step >>, << Base + Step, Base + 2 * Step >> }
RoomCreateRequests ==
    { [GoodCreate(p[1], p[2]) EXCEPT !.roomId = r] :
        p \in RoomIntervals, r \in Rooms \cup { "rX" } }
RoomUpdateRequests ==
    { NoChange }
    \cup { [NoChange EXCEPT !.startTime = Date(p[1]), !.endTime = Date(p[2])] :
             p \in RoomIntervals }

NextRooms ==
    \/ \E caller \in Creators, req \in RoomCreateRequests : Create(caller, req)
    \/ \E caller \in Creators, id \in BookingIds, req \in RoomUpdateRequests :
         Update(caller, id, req)
    \/ \E caller \in Creators, id \in BookingIds : Cancel(caller, id)
    \/ \E caller \in Creators, id \in BookingIds : Delete(caller, id)
    \/ \E caller \in Admins, id \in BookingIds : AdminDelete(caller, id)
    \/ \E caller \in Admins, id \in BookingIds, status \in RaceStatuses,
          adminNote \in RaceNotes : SetStatus(caller, id, status, adminNote)
    \/ \E caller \in Readers, id \in BookingIds : GetOne(caller, id)
    \/ \E r \in Rooms : Deactivate(r)
    \/ Tick
    \/ Deliver

\* Handlers run one at a time while rooms are deactivated.
SpecRooms == Init /\ [][NextRooms]_vars

\* Updates of both bounds and updates that supply no bound, with and
\* without a participants count.
FrameUpdateRequests == RaceUpdateRequests \cup CapUpdateRequests

NextFrame ==
    \/ \E caller \in Creators, req \in RaceCreateRequests : Create(caller, req)
    \/ \E caller \in Creators, req \in RaceCreateRequests : CreateBegin(caller, req)
    \/ CreateCommit
    \/ \E caller \in Creators, id \in BookingIds, req \in FrameUpdateRequests :
         Update(caller, id, req)
    \/ \E caller \in Creators, id \in BookingIds : Cancel(caller, id)
    \/ \E caller \in Admins, id \in BookingIds, status \in RaceStatuses,
          adminNote \in RaceNotes : SetStatus(caller, id, status, adminNote)
    \/ Deliver

\* Creates overlap one another, so that overlapping bookings are stored;
\* updates, cancels and set-status requests run one at a time.  The clock
\* stands still.
SpecFrame == Init /\ [][NextFrame]_vars

\* ================================================================ claims
Active(b) == b.status \notin { "cancelled", "rejected" }
Overlap(a, b) == a.startTime < b.endTime /\ a.endTime > b.startTime
\* The booking a response is about, as stored before the request.
Target == bookings[last'.id]
About(op) == last'.op = op /\ ~Malformed(last'.id) /\ Exists(last'.id)

\* C1: with handlers run one at a time, any two stored bookings of one room
\* whose statuses are both outside {cancelled, rejected} have non-overlapping
\* half-open intervals [startTime, endTime).
C1_NoDoubleBooking ==
    \A a \in Stored, b \in Stored :
        ( a # b /\ bookings[a].roomId = bookings[b].roomId
          /\ Active(bookings[a]) /\ Active(bookings[b]) )
        => ~Overlap(bookings[a], bookings[b])

\* Two active bookings of one room, the second starting when the first ends,
\* while a create for an interval that overlaps them was refused.
C1_Witness ==
    /\ \E a \in Stored, b \in Stored :
         /\ a # b /\ bookings[a].roomId = bookings[b].roomId
         /\ Active(bookings[a]) /\ Active(bookings[b])
         /\ bookings[a].endTime = bookings[b].startTime
    /\ last.op = "create" /\ last.result = "Conflict"

\* A pair of active bookings of one room with overlapping intervals.
Clash(bk, a, b) ==
    /\ a # b
    /\ bk[a] # NoBooking /\ bk[b] # NoBooking
    /\ bk[a].roomId = bk[b].roomId
    /\ Active(bk[a]) /\ Active(bk[b])
    /\ Overlap(bk[a], bk[b])

\* C2: when the conflict check and the store write are separate steps, two
\* overlapping bookings of one room can both be persisted, and only that
\* way: a step after which a pair of active bookings overlaps that did not
\* overlap before is the store write of a handler whose checks ran earlier.
C2_OverlapOnlyByStaleWrite ==
    [][ ( \E a \in BookingIds, b \in BookingIds :
            Clash(bookings', a, b) /\ ~Clash(bookings, a, b) )
        => ( pend # NoPend /\ pend' = NoPend )
      ]_vars

\* Two pending bookings of one room with overlapping intervals, the second
\* one just stored by a create that was answered with success.
C2_Witness ==
    /\ last.op = "create" /\ last.result = "ok"
    /\ \E a \in Stored :
         /\ Clash(bookings, a, last.id)
         /\ bookings[a].status = "pending"
         /\ bookings[last.id].status = "pending"

\* C3: every change of a stored booking's status is one of the five
\* transitions pending->approved, pending->rejected, pending->cancelled,
\* approved->completed, approved->cancelled; rejected, cancelled and
\* completed bookings never change status again.
FiveTransitions ==
    { << "pending", "approved" >>, << "pending", "rejected" >>,
      << "pending", "cancelled" >>, << "approved", "completed" >>,
      << "approved", "cancelled" >> }
C3_OnlyFiveTransitions ==
    [][ \A id \in BookingIds :
          ( bookings[id] # NoBooking /\ bookings'[id] # NoBooking
            /\ bookings'[id].status # bookings[id].status )
          => << bookings[id].status, bookings'[id].status >> \in FiveTransitions
      ]_vars

\* C4: every stored booking has participantsCount at most the capacity of
\* its room.
C4_CountWithinCapacity ==
    \A id \in Stored :
        bookings[id].participantsCount <= Room(bookings[id].roomId).capacity

C6_UpdateOnlyOwnerPendingFuture ==
    [][ About("update") =>
          LET allowed == /\ last'.caller = Target.owner
                         /\ Target.status = "pending"
                         /\ Target.startTime >= now
          IN  /\ last'.result = "ok" => allowed
              /\ ~allowed =>
                   /\ last'.result = IF last'.caller # Target.owner
                                     THEN "Forbidden" ELSE "InvalidState"
                   /\ bookings' = bookings
      ]_vars

\* The owner's update of an approved booking was refused with InvalidState.
C6_Witness ==
    /\ last.op = "update" /\ last.result = "InvalidState"
    /\ Exists(last.id)
    /\ bookings[last.id].owner = last.caller
    /\ bookings[last.id].status = "approved"

\* C7: cancel succeeds if and only if the caller is the owner, the status is
\* pending or approved, and startTime is not before the current instant; on
\* success the status becomes cancelled.
C7_CancelIffOwnerOpenFuture ==
    [][ About("cancel") =>
          /\ last'.result = "ok" <=>
               /\ last'.caller = Target.owner
               /\ Target.status \in { "pending", "approved" }
               /\ Target.startTime >= now
          /\ last'.result = "ok" => bookings'[last'.id].status = "cancelled"
      ]_vars

\* C8: a create, update, cancel or set-status request answered with an error
\* leaves the booking records and the documents they reference unchanged.
C8_FailureChangesNothing ==
    [][ ( last'.op \in { "create", "update", "cancel", "setStatus" }
          /\ last'.result # "ok" )
        => /\ bookings' = bookings
           /\ \A id \in Stored :
                bookings[id].documentPath \in files
                => bookings[id].documentPath \in files'
      ]_vars

\* C9: when a create or update that carried an upload fails, the uploaded
\* file is deleted.
C9_FailedUploadDeleted ==
    [][ ( last'.op \in { "create", "update" } /\ last'.result # "ok"
          /\ nextFile' # nextFile )
        => nextFile \notin files'
      ]_vars

\* C10: when X and Y are both pending and overlap on one room, the admin's
\* approval of X succeeds; and an approval attempt on a pending booking that
\* overlaps an approved one fails with Conflict and leaves it pending.
C10_ApprovalRace ==
    [][ \A x \in BookingIds, n \in RaceNotes :
          ( SetStatus("a1", x, "approved", n)
            /\ bookings[x] # NoBooking /\ bookings[x].status = "pending" )
          => /\ ( \E y \in BookingIds :
                    Clash(bookings, x, y) /\ bookings[y].status = "pending" )
                => ( last'.result = "ok" /\ bookings'[x].status = "approved" )
             /\ ( \E y \in BookingIds :
                    Clash(bookings, x, y) /\ bookings[y].status = "approved" )
                => ( last'.result = "Conflict" /\ bookings'[x] = bookings[x] )
      ]_vars

\* ------------------------------------------ the room's local time (UTC+7)
\* What the specification means by local date, local time of day and the
\* operating-hours window, minutes included.
LocalDate(t) == (t + JakartaOffset * MinutesPerHour) \div MinutesPerDay
LocalMinute(t) == (t + JakartaOffset * MinutesPerHour) % MinutesPerDay
WindowStart(room) ==
    IF room.operatingHours.start # <<>>
    THEN room.operatingHours.start[1] * MinutesPerHour + room.operatingHours.start[2]
    ELSE DefaultOpenHour * MinutesPerHour
WindowEnd(room) ==
    IF room.operatingHours.end # <<>>
    THEN room.operatingHours.end[1] * MinutesPerHour + room.operatingHours.end[2]
    ELSE DefaultCloseHour * MinutesPerHour
InsideWindow(room, s, e) ==
    LocalMinute(s) >= WindowStart(room) /\ LocalMinute(e) <= WindowEnd(room)

\* A create request that satisfies every condition the specification puts
\* on a create, against the store bk at instant t.
ValidCreate(bk, t, req) ==
    /\ req.roomId # MissingRoom /\ req.hasName
    /\ req.startTime.kind = "date" /\ req.endTime.kind = "date"
    /\ req.roomId \in Rooms /\ Room(req.roomId).isActive
    /\ req.endTime.t > req.startTime.t
    /\ req.startTime.t >= t
    /\ req.count.given =>
         ( ~req.count.junk /\ req.count.digits <= Room(req.roomId).capacity )
    /\ \/ LocalDate(req.startTime.t) # LocalDate(req.endTime.t)
       \/ InsideWindow(Room(req.roomId), req.startTime.t, req.endTime.t)
    /\ \A id \in BookingIds :
         ( bk[id] # NoBooking /\ bk[id].roomId = req.roomId /\ Active(bk[id]) )
         => ~( bk[id].startTime < req.endTime.t /\ bk[id].endTime > req.startTime.t )

\* C11: a create request whose required fields (room, activity name, start,
\* end) are present, whose room is active, whose timestamps are valid with
\* end > start and start not past, whose count does not exceed capacity,
\* whose interval is inside operating hours or multi-day, and that conflicts
\* with no booking, succeeds and stores exactly one new pending booking.
C11_ValidCreateSucceeds ==
    [][ \A caller \in Creators, req \in CreateRequests :
          ( Create(caller, req) /\ ValidCreate(bookings, now, req) )
          => /\ last'.result = "ok"
             /\ nextId' = nextId + 1
             /\ bookings'[nextId].status = "pending"
             /\ \A id \in BookingIds \ { nextId } : bookings'[id] = bookings[id]
      ]_vars

\* The error of the earliest failing check of a create in the order of the
\* specification: required fields, room, timestamps, end > start, past,
\* capacity, operating hours, and the conflict check last; "none" when no
\* check fails.
EarliestFailingCheck(bk, t, zone, req) ==
    IF req.roomId = MissingRoom \/ ~req.hasName
       \/ req.startTime.kind = "missing" \/ req.endTime.kind = "missing"
    THEN "InvalidInput"
    ELSE IF req.roomId \notin Rooms \/ ~Room(req.roomId).isActive
    THEN "NotFound"
    ELSE IF req.startTime.kind = "invalid" \/ req.endTime.kind = "invalid"
    THEN "InvalidInput"
    ELSE IF req.endTime.t <= req.startTime.t
    THEN "InvalidInput"
    ELSE IF req.startTime.t < t
    THEN "InvalidInput"
    ELSE IF ExceedsCapacity(req.count, Room(req.roomId))
    THEN "CapacityExceeded"
    ELSE IF OutsideHours(Room(req.roomId), req.startTime.t, req.endTime.t, zone)
    THEN "OutOfOperatingHours"
    ELSE IF CreateConflict(bk, req) # {}
    THEN "Conflict"
    ELSE "none"

\* C12: a create request that fails a check is answered with the error of
\* the earliest failing check in the order required fields, room, timestamps,
\* end > start, start not past, capacity, operating hours, conflict.
C12_EarliestCheckAnswers ==
    [][ \A caller \in Creators, req \in CapCreateRequests :
          ( Create(caller, req)
            /\ EarliestFailingCheck(bookings, now, tz, req) # "none" )
          => last'.result = EarliestFailingCheck(bookings, now, tz, req)
      ]_vars

\* C13: an admin set-status request fails with InvalidState and leaves the
\* booking unchanged when the target is approved or rejected and the status
\* is not pending, or the target is completed and the status is not approved;
\* a target outside {approved, rejected, completed} is refused before any
\* booking is read, whatever the id.
C13_SetStatusGuards ==
    [][ ( last'.op = "setStatus" /\ Role(last'.caller) = "admin" )
        => \A status \in StatusInputs, n \in AdminNotes :
             SetStatus(last'.caller, last'.id, status, n)
             => /\ ( /\ Exists(last'.id)
                     /\ \/ /\ status \in { "approved", "rejected" }
                           /\ bookings[last'.id].status # "pending"
                        \/ /\ status = "completed"
                           /\ bookings[last'.id].status # "approved" )
                   => ( last'.result = "InvalidState" /\ bookings' = bookings )
                /\ status \notin { "approved", "rejected", "completed" }
                   => ( last'.result = "InvalidInput" /\ bookings' = bookings )
      ]_vars

\* The admin's set-status request on an approved booking was refused with
\* InvalidState; the booking is still approved.
C13_Witness ==
    /\ last.op = "setStatus" /\ last.result = "InvalidState"
    /\ Role(last.caller) = "admin"
    /\ Exists(last.id)
    /\ bookings[last.id].status = "approved"

\* C14: every stored booking whose start and end fall on the same calendar
\* date in UTC+7 has its whole interval inside the operating-hours window of
\* its room, minutes included.
C14_StoredInsideWindow ==
    \A id \in Stored :
        LocalDate(bookings[id].startTime) = LocalDate(bookings[id].endTime)
        => InsideWindow(Room(bookings[id].roomId),
                        bookings[id].startTime, bookings[id].endTime)

\* C15: whether the hour check applies is decided by the UTC+7 dates of
\* start and end, whatever the zone of the machine: a create that reaches the
\* working-hours check is refused with OutOfOperatingHours exactly when start
\* and end share a UTC+7 date and the local start hour is before the window
\* or the local end hour after it.
C15_LocalDatesDecide ==
    [][ \A caller \in Creators, req \in ZoneCreateRequests :
          ( Create(caller, req)
            /\ last'.result \in { "ok", "OutOfOperatingHours" } )
          => ( last'.result = "OutOfOperatingHours"
               <=> /\ LocalDate(req.startTime.t) = LocalDate(req.endTime.t)
                   /\ \/ JakartaHour(req.startTime.t) < OpenHour(Room(req.roomId))
                      \/ JakartaHour(req.endTime.t) > CloseHour(Room(req.roomId)) )
      ]_vars

\* Some stored booking of the room other than `exclude`, not cancelled or
\* rejected, overlaps the half-open interval [s, e).
HalfOpenClash(bk, roomId, s, e, exclude) ==
    \E id \in BookingIds \ { exclude } :
        /\ bk[id] # NoBooking /\ bk[id].roomId = roomId /\ Active(bk[id])
        /\ bk[id].startTime < e /\ bk[id].endTime > s

\* C16: a create, or an update of the interval, that reaches the conflict
\* check is refused with Conflict exactly when another booking of the room
\* that is not cancelled or rejected overlaps its half-open interval: an
\* interval that starts at another's end or ends at another's start is not
\* refused, one that overlaps by a single unit is.
C16_HalfOpenConflict ==
    [][ /\ ( last'.op = "create"
             /\ last'.result \notin { "InvalidInput", "NotFound" } )
           => \A req \in CreateRequests :
                Create(last'.caller, req)
                => ( last'.result = "Conflict"
                     <=> HalfOpenClash(bookings, req.roomId,
                                       req.startTime.t, req.endTime.t, 0) )
        /\ ( last'.op = "update" /\ last'.result \in { "ok", "Conflict" } )
           => \A req \in UpdateRequests :
                ( ChangesTime(req) /\ Update(last'.caller, last'.id, req) )
                => ( last'.result = "Conflict"
                     <=> HalfOpenClash(bookings, bookings[last'.id].roomId,
                                       NewStart(bookings[last'.id], req).t,
                                       NewEnd(bookings[last'.id], req).t,
                                       last'.id) )
      ]_vars

\* A create for an interval that starts exactly where an active booking of
\* the room ends was accepted.
C16_Witness ==
    /\ last.op = "create" /\ last.result = "ok"
    /\ \E a \in Stored :
         /\ a # last.id
         /\ bookings[a].roomId = bookings[last.id].roomId
         /\ Active(bookings[a])
         /\ bookings[a].endTime = bookings[last.id].startTime

\* C17: after a successful update that supplies a start or an end, the
\* stored interval has end > start, its start is not before the instant of
\* the update, it passes the working-hours check of its room and, handlers
\* running one at a time, overlaps no other booking of the room that is not
\* cancelled or rejected; a bound that was not supplied is the stored one.
C17_UpdatedIntervalValid ==
    [][ ( last'.op = "update" /\ last'.result = "ok" )
        => \A req \in UpdateRequests :
             ( ChangesTime(req) /\ Update(last'.caller, last'.id, req) )
             => LET old == bookings[last'.id]
                    new == bookings'[last'.id]
                IN  /\ new.endTime > new.startTime
                    /\ new.startTime >= now
                    /\ ~OutsideHours(Room(new.roomId), new.startTime, new.endTime, tz)
                    /\ ~HalfOpenClash(bookings', new.roomId, new.startTime,
                                      new.endTime, last'.id)
                    /\ new.startTime = IF req.startTime.kind = "missing"
                                       THEN old.startTime ELSE req.startTime.t
                    /\ new.endTime = IF req.endTime.kind = "missing"
                                     THEN old.endTime ELSE req.endTime.t
      ]_vars

\* An update was accepted for a booking that now starts exactly where
\* another active booking of its room ends.
C17_Witness ==
    /\ last.op = "update" /\ last.result = "ok"
    /\ \E a \in Stored :
         /\ a # last.id
         /\ bookings[a].roomId = bookings[last.id].roomId
         /\ Active(bookings[a])
         /\ bookings[a].endTime = bookings[last.id].startTime

C19_NotifyFailureSwallowed ==
    [][ ( last'.op = "setStatus" /\ last'.mail = "failed" )
        => /\ last'.result = "ok"
           /\ \A status \in StatusInputs, n \in AdminNotes :
                SetStatus(last'.caller, last'.id, status, n)
                => /\ bookings[last'.id].status # status
                   /\ bookings'[last'.id].status = status
      ]_vars

\* An approval whose notification failed was answered with success, and the
\* booking is approved.
C19_Witness ==
    /\ last.op = "setStatus" /\ last.mail = "failed" /\ last.result = "ok"
    /\ Exists(last.id)
    /\ bookings[last.id].status = "approved"

\* C20: get-one returns the record if and only if the booking exists and the
\* caller is its owner or an admin; for an existing booking and any other
\* caller it answers Forbidden, for an absent or malformed id NotFound; it
\* changes no booking.
C20_GetOnlyOwnerOrAdmin ==
    [][ last'.op = "get"
        => LET found == Exists(last'.id)
               allowed == /\ found
                          /\ \/ bookings[last'.id].owner = last'.caller
                             \/ Role(last'.caller) = "admin"
           IN  /\ last'.result = "ok" <=> allowed
               /\ ( found /\ ~allowed ) => last'.result = "Forbidden"
               /\ ~found => last'.result = "NotFound"
               /\ bookings' = bookings
               /\ files' = files
      ]_vars

\* A user who is neither the owner nor an admin asked for an existing
\* booking and was answered Forbidden.
C20_Witness ==
    /\ last.op = "get" /\ last.result = "Forbidden"
    /\ Exists(last.id)
    /\ bookings[last.id].owner # last.caller
    /\ Role(last.caller) = "user"

\* C21: round trip.  A successful create stores the room and the start and
\* end of the request with status pending, the delivery of its answer changes
\* no booking, and a get by the owner returns the stored record: fetched right
\* after the create it shows the requested room and interval and status
\* pending.
C21_CreateThenGet ==
    [][ /\ ( last'.op = "create" /\ last'.result = "ok" )
           => \A req \in CreateRequests :
                Create(last'.caller, req)
                => /\ bookings'[last'.id].owner = last'.caller
                   /\ bookings'[last'.id].roomId = req.roomId
                   /\ bookings'[last'.id].startTime = req.startTime.t
                   /\ bookings'[last'.id].endTime = req.endTime.t
                   /\ bookings'[last'.id].status = "pending"
        /\ last'.op = "none" => bookings' = bookings
        /\ ( last'.op = "get" /\ Exists(last'.id)
             /\ bookings[last'.id].owner = last'.caller )
           => /\ last'.result = "ok"
              /\ last'.data.roomId = bookings[last'.id].roomId
              /\ last'.data.startTime = bookings[last'.id].startTime
              /\ last'.data.endTime = bookings[last'.id].endTime
              /\ last'.data.status = bookings[last'.id].status
      ]_vars

\* The owner fetched a booking that is still pending and got its record.
C21_Witness ==
    /\ last.op = "get" /\ last.result = "ok"
    /\ Exists(last.id)
    /\ bookings[last.id].owner = last.caller
    /\ last.data.status = "pending"
    /\ last.data.endTime > last.data.startTime

\* C22: a booking is created only against a room that exists and is active
\* at that moment, a create for any other room fails with NotFound and stores
\* nothing; deactivating a room changes no booking; no handler changes a
\* room.
C22_OnlyActiveRooms ==
    [][ /\ last'.op = "create"
           => \A req \in RoomCreateRequests :
                Create(last'.caller, req)
                => /\ last'.result = "ok"
                      => ( req.roomId \in Rooms /\ req.roomId \in activeRooms )
                   /\ ( req.roomId \notin Rooms \/ req.roomId \notin activeRooms )
                      => ( last'.result = "NotFound" /\ bookings' = bookings )
        /\ activeRooms' # activeRooms => bookings' = bookings
        /\ last'.op # "none" => activeRooms' = activeRooms
      ]_vars

\* A pending booking of a room that was deactivated after the booking was
\* made.
C22_Witness ==
    \E id \in Stored :
        /\ bookings[id].roomId \notin activeRooms
        /\ bookings[id].status = "pending"

\* C23: a status transition writes the new status, the acting user and the
\* note in one step: whenever the status or the audit annotation of a stored
\* booking changes, the step is the answer of a successful cancel or
\* set-status on that booking, and afterwards the booking carries the
\* caller as its actor together with the note of that request (the fixed
\* user-cancel note for a cancel, the admin's note for a set-status) and the
\* requested status.
C23_TransitionWritesAnnotation ==
    [][ \A id \in BookingIds :
          ( /\ bookings[id] # NoBooking /\ bookings'[id] # NoBooking
            /\ \/ bookings'[id].status # bookings[id].status
               \/ bookings'[id].actor # bookings[id].actor
               \/ bookings'[id].note # bookings[id].note )
          => /\ last'.op \in { "cancel", "setStatus" }
             /\ last'.id = id
             /\ last'.result = "ok"
             /\ bookings'[id].actor = last'.caller
             /\ last'.op = "cancel"
                => /\ bookings'[id].status = "cancelled"
                   /\ bookings'[id].note = UserCancelNote
                   /\ Role(last'.caller) # "admin"
             /\ last'.op = "setStatus"
                => /\ bookings'[id].status = last'.mailStatus
                   /\ bookings'[id].note \in AdminNotes
                   /\ Role(last'.caller) = "admin"
      ]_vars

\* A booking that its owner has cancelled while a set-status of the admin
\* on it is between its checks and its write: the record shows the owner
\* and the user-cancel note.
C23_Witness ==
    /\ last.op = "cancel" /\ last.result = "ok"
    /\ bookings[last.id] # NoBooking
    /\ bookings[last.id].status = "cancelled"
    /\ bookings[last.id].actor = last.caller
    /\ bookings[last.id].note = UserCancelNote
    /\ pend.op = "setStatus" /\ pend.id = last.id

\* C24: while handlers overlap, no two approved bookings of one room have
\* overlapping intervals.
C24_ApprovedNeverOverlap ==
    \A a \in Stored, b \in Stored :
        ( /\ a # b
          /\ bookings[a].roomId = bookings[b].roomId
          /\ bookings[a].status = "approved" /\ bookings[b].status = "approved" )
        => ~Overlap(bookings[a], bookings[b])

\* C25: while handlers overlap, the write of an update changes a booking
\* only if the stored status is pending at the moment of the write.
C25_UpdateWritesPendingOnly ==
    [][ \A id \in BookingIds :
          ( /\ last'.op = "update" /\ last'.id = id
            /\ bookings[id] # NoBooking
            /\ bookings'[id] # bookings[id] )
          => bookings[id].status = "pending"
      ]_vars

\* C26: while handlers overlap, a booking whose status is cancelled never
\* afterwards has another status.
C26_CancelledStays ==
    [][ \A id \in BookingIds :
          ( /\ bookings[id] # NoBooking /\ bookings[id].status = "cancelled"
            /\ bookings'[id] # NoBooking )
          => bookings'[id].status = "cancelled"
      ]_vars

\* C27 as stated: whenever two bookings of one room overlap and both have a
\* status outside {cancelled, rejected}, every approval attempt of the admin
\* on either of them is answered Conflict and leaves the booking pending.
C27_ClashBlocksApproval ==
    [][ ( last'.op = "setStatus" /\ Role(last'.caller) = "admin" )
        => \A adminNote \in AdminNotes :
             ( /\ SetStatus(last'.caller, last'.id, "approved", adminNote)
               /\ \E other \in BookingIds : Clash(bookings, last'.id, other) )
             => /\ last'.result = "Conflict"
                /\ bookings' = bookings
                /\ bookings[last'.id].status = "pending"
      ]_vars

\* C27: the approval check counts pending bookings: an approval attempt of
\* the admin on a pending booking is answered Conflict and changes nothing
\* as long as another booking of the room with a status outside {cancelled,
\* rejected} overlaps it, and succeeds once no such booking is left.
C27_PendingClashBlocksApproval ==
    [][ ( last'.op = "setStatus" /\ Role(last'.caller) = "admin" )
        => \A adminNote \in AdminNotes :
             ( /\ SetStatus(last'.caller, last'.id, "approved", adminNote)
               /\ bookings[last'.id] # NoBooking
               /\ bookings[last'.id].status = "pending" )
             => IF \E other \in BookingIds : Clash(bookings, last'.id, other)
                THEN /\ last'.result = "Conflict"
                     /\ bookings' = bookings
                ELSE /\ last'.result = "ok"
                     /\ bookings'[last'.id].status = "approved"
      ]_vars

\* The approval of a pending booking has been refused with Conflict while
\* the only booking that overlaps it is itself pending.
C27_Witness ==
    /\ last.op = "setStatus" /\ last.result = "Conflict"
    /\ bookings[last.id] # NoBooking
    /\ bookings[last.id].status = "pending"
    /\ \E other \in BookingIds :
         /\ Clash(bookings, last.id, other)
         /\ bookings[other].status = "pending"
    /\ \A other \in Stored : bookings[other].status = "pending"

\* C28: a successful update leaves the booking's status, room and owner and
\* every other booking as they were; an update that supplies neither start
\* nor end leaves startTime and endTime as they were and is validated by
\* the guards only: for the owner of a pending booking of an active room
\* that has not started it succeeds, also when the interval overlaps another
\* active booking of the room.
C28_UpdateFrame ==
    [][ last'.op = "update"
        => \A req \in FrameUpdateRequests :
             Update(last'.caller, last'.id, req)
             => LET id == last'.id
                    b  == bookings[id]
                IN  /\ \A other \in BookingIds \ { id } :
                         bookings'[other] = bookings[other]
                    /\ last'.result = "ok"
                       => /\ bookings'[id].status = b.status
                          /\ bookings'[id].roomId = b.roomId
                          /\ bookings'[id].owner = b.owner
                    /\ ( ~ChangesTime(req) /\ b # NoBooking )
                       => /\ bookings'[id].startTime = b.startTime
                          /\ bookings'[id].endTime = b.endTime
                          /\ ( /\ b.owner = last'.caller
                               /\ b.status = "pending"
                               /\ b.startTime >= now
                               /\ b.roomId \in activeRooms )
                             => last'.result = "ok"
      ]_vars

\* An update has succeeded on a booking whose interval overlaps another
\* active booking of the room.
C28_Witness ==
    /\ last.op = "update" /\ last.result = "ok"
    /\ \E other \in BookingIds : Clash(bookings, last.id, other)

\* C29: an update, a cancel or an owner delete by a caller who is not the
\* booking's owner, an admin included, is answered Forbidden whatever the
\* booking's status and start, and leaves every booking and every stored
\* document as it was; a stored booking is changed or removed by a caller
\* who is not its owner only through admin set-status and admin delete.
C29_NonOwnerRefused ==
    [][ /\ ( /\ last'.op \in { "update", "cancel", "delete" }
             /\ ~Malformed(last'.id)
             /\ Exists(last'.id)
             /\ Target.owner # last'.caller )
           => /\ last'.result = "Forbidden"
              /\ bookings' = bookings
              /\ files \subseteq files'
        /\ \A id \in BookingIds :
             ( /\ bookings[id] # NoBooking
               /\ bookings'[id] # bookings[id]
               /\ bookings[id].owner # last'.caller )
             => /\ last'.op \in { "setStatus", "adminDelete" }
                /\ Role(last'.caller) = "admin"
      ]_vars

\* The admin's cancel of a user's booking has been refused with Forbidden;
\* the booking is already cancelled and its document is still stored, so
\* the ownership check answered before the status guard.
C29_Witness ==
    /\ last.op = "cancel" /\ last.result = "Forbidden"
    /\ Role(last.caller) = "admin"
    /\ ~Malformed(last.id) /\ Exists(last.id)
    /\ bookings[last.id].status = "cancelled"
    /\ bookings[last.id].documentPath \in files

\* C30: a notification is attempted only by a set-status request that has
\* written the booking's new status: the attempt names the status the
\* booking now has, the step has changed the booking's status to it, and a
\* request that is answered with anything but success, of set-status or of
\* any other operation, attempts no notification.
C30_NotifyOnlyAfterTransition ==
    [][ /\ last'.mail # "none"
           => /\ last'.op = "setStatus"
              /\ last'.result = "ok"
              /\ ~Malformed(last'.id) /\ Exists(last'.id)
              /\ bookings'[last'.id] # NoBooking
              /\ bookings'[last'.id].status = last'.mailStatus
              /\ bookings[last'.id].status # last'.mailStatus
        /\ ( last'.op = "setStatus" /\ last'.result # "ok" )
           => ( last'.mail = "none" /\ bookings' = bookings )
        /\ ( last'.op = "setStatus" /\ last'.result = "ok" )
           => last'.mail \in NotifyOutcomes
        /\ last'.op \notin { "setStatus", "none" } => last'.mail = "none"
      ]_vars

\* The admin has rejected a pending booking and the notification that names
\* the status rejected has been attempted and has failed.
C30_Witness ==
    /\ last.op = "setStatus" /\ last.mail = "failed"
    /\ last.mailStatus = "rejected"
    /\ bookings[last.id] # NoBooking
    /\ bookings[last.id].status = "rejected"

====
